---- MODULE Spec2Model ----
(***************************************************************************)
(* A model of terraform-provider-phase: the phase_secret resource          *)
(* callbacks (create / read / update / delete), the phase_secrets data     *)
(* source, the HTTP client wrapper they call, and the credential parser    *)
(* extractTokenInfo.  The remote Phase API is an external collaborator; it *)
(* is modelled from its contract (a store of secrets, unique per           *)
(* (app, env, path, key), addressed by a server-assigned id).              *)
(***************************************************************************)
EXTENDS Integers, Sequences, FiniteSets, TLC

VARIABLES
    phase_token,   \* the credential given to the provider block
    client,        \* the PhaseClient built by providerConfigure
    cfg,           \* the declared configuration of the phase_secret resource
    d,             \* the resource's ResourceData (state kept by the host)
    tainted,       \* the host's mark on a resource whose create returned an error after SetId
    remote,        \* the secrets held by the remote API
    clock,         \* the remote API's counter of mutations (ids and timestamps derive from it)
    log,           \* the requests issued by the last callback, in order
    ret,           \* the last callback: its name, the ResourceData it was given, the
                   \* error it returned (<<>> is nil) and, for the data source, the
                   \* ResourceData it filled
    gone           \* secrets deleted through the resource and not created again since

vars == <<phase_token, client, cfg, d, tainted, remote, clock, log, ret, gone>>

(* ------------------------------------------------------------------ *)
(* Bounds of the model                                                  *)
(* ------------------------------------------------------------------ *)

\* The remote API accepts at most this many mutations (creates and updates).
MaxClock == 2

(* ------------------------------------------------------------------ *)
(* Values                                                               *)
(* ------------------------------------------------------------------ *)

NoErr == <<>>

NilOverride == [present |-> FALSE, Value |-> "", IsActive |-> FALSE]

MkOverride(v, a) == [present |-> TRUE, Value |-> v, IsActive |-> a]

\* The zero Secret.
ZeroSecret ==
    [ID |-> "", Key |-> "", Value |-> "", Comment |-> "", Path |-> "",
     Tags |-> <<>>, tagsNil |-> TRUE, Version |-> 0, CreatedAt |-> "",
     UpdatedAt |-> "", Override |-> NilOverride]

\* The JSON encoding of a Secret: the fields tagged omitempty are left out
\* when they hold their zero value.
Marshal(s) ==
    [json |-> s,
     omitted |->
         (IF s.ID = "" THEN {"id"} ELSE {})
         \cup (IF s.Comment = "" THEN {"comment"} ELSE {})
         \cup (IF s.Path = "" THEN {"path"} ELSE {})
         \cup (IF Len(s.Tags) = 0 THEN {"tags"} ELSE {})
         \cup (IF s.Version = 0 THEN {"version"} ELSE {})
         \cup (IF s.CreatedAt = "" THEN {"createdAt"} ELSE {})
         \cup (IF s.UpdatedAt = "" THEN {"updatedAt"} ELSE {})
         \cup (IF ~s.Override.present THEN {"override"} ELSE {})]

\* strings.Contains(err.Error(), part), on an error message kept as its parts.
ErrContains(err, part) == \E i \in 1..Len(err) : err[i] = part

\* fmt.Errorf("<prefix>: %w", err)
Wrap(prefix, err) == <<prefix>> \o err

(* ------------------------------------------------------------------ *)
(* The remote API (contract of the collaborator)                        *)
(* ------------------------------------------------------------------ *)

NewId(n) == "sec-" \o ToString(n)

Stamp(n) == "t" \o ToString(n)

InScope(store, app, env) == {s \in store : s.app = app /\ s.env = env}

\* What the API returns for a stored secret.
Wire(s) ==
    [ID |-> s.ID, Key |-> s.Key, Value |-> s.Value, Comment |-> s.Comment,
     Path |-> s.Path, Tags |-> s.Tags, tagsNil |-> FALSE, Version |-> s.Version,
     CreatedAt |-> s.CreatedAt, UpdatedAt |-> s.UpdatedAt, Override |-> s.Override]

BodyPath(b) == IF "path" \in b.omitted THEN "/" ELSE b.json.Path

BodyComment(b) == IF "comment" \in b.omitted THEN "" ELSE b.json.Comment

BodyTags(b) == IF "tags" \in b.omitted THEN <<>> ELSE b.json.Tags

\* The text of a response body: the secrets on success, the API's account
\* of the failure otherwise.
RawBody(code, status) ==
    IF code = 200 THEN "[...]" ELSE "{\"error\": \"" \o status \o "\"}"

HttpResponse(code, status, body, store, clk) ==
    [transport |-> FALSE, decodable |-> TRUE, StatusCode |-> code, Status |-> status,
     raw |-> RawBody(code, status), body |-> body, store |-> store, clock |-> clk]

\* A request that did not reach the API, or that the API refused to serve.
Faulty(fault, store, clk) ==
    CASE fault = "transport" ->
             [transport |-> TRUE, decodable |-> FALSE, StatusCode |-> 0, Status |-> "",
              raw |-> "", body |-> <<>>, store |-> store, clock |-> clk]
      [] fault = "status" -> HttpResponse(500, "500 Internal Server Error", <<>>, store, clk)
      [] fault = "garbled" ->
             [transport |-> FALSE, decodable |-> FALSE, StatusCode |-> 200,
              Status |-> "200 OK", raw |-> "<html>", body |-> <<>>, store |-> store,
              clock |-> clk]
      [] OTHER -> HttpResponse(200, "200 OK", <<>>, store, clk)

\* The ways a request can fail without the API acting on it: no connection,
\* a server error, a body that is not JSON, an empty list.
Faults == {"transport", "status", "garbled", "empty"}

\* The success statuses the API may answer a creation and a deletion with,
\* besides 200 OK.
CreatedStatus == <<201, "201 Created">>

NoContentStatus == <<204, "204 No Content">>

\* The responses a request may receive: the API's, the same under another
\* success status when the API served it, or a fault.
Exchange(served, alts, faults, store, clk) ==
    {served}
    \cup (IF served.StatusCode = 200
          THEN {[served EXCEPT !.StatusCode = a[1], !.Status = a[2]] : a \in alts}
          ELSE {})
    \cup {Faulty(f, store, clk) : f \in faults}

\* POST /v1/secrets/
ServerCreate(store, clk, app, env, b) ==
    IF \E s \in InScope(store, app, env) : s.Path = BodyPath(b) /\ s.Key = b.json.Key
    THEN HttpResponse(409, "409 Conflict", <<>>, store, clk)
    ELSE LET new == [app |-> app, env |-> env, seq |-> clk + 1,
                     ID |-> NewId(clk + 1), Key |-> b.json.Key, Value |-> b.json.Value,
                     Comment |-> BodyComment(b), Path |-> BodyPath(b),
                     Tags |-> BodyTags(b), Version |-> 1,
                     CreatedAt |-> Stamp(clk + 1), UpdatedAt |-> Stamp(clk + 1),
                     Override |-> b.json.Override]
         IN  HttpResponse(200, "200 OK", <<Wire(new)>>, store \cup {new}, clk + 1)

\* PUT /v1/secrets/
ServerUpdate(store, clk, app, env, b) ==
    LET hit == {s \in InScope(store, app, env) : s.ID = b.json.ID} IN
    IF hit = {} \/ "id" \in b.omitted
    THEN HttpResponse(404, "404 Not Found", <<>>, store, clk)
    ELSE LET old == CHOOSE s \in hit : TRUE IN
         IF \E s \in InScope(store, app, env) :
                s.ID # old.ID /\ s.Path = BodyPath(b) /\ s.Key = b.json.Key
         THEN HttpResponse(409, "409 Conflict", <<>>, store, clk)
         ELSE LET new == [old EXCEPT !.Key = b.json.Key, !.Value = b.json.Value,
                                     !.Comment = BodyComment(b), !.Path = BodyPath(b),
                                     !.Tags = BodyTags(b), !.Version = old.Version + 1,
                                     !.UpdatedAt = Stamp(clk + 1),
                                     !.Override = IF "override" \in b.omitted
                                                  THEN old.Override ELSE b.json.Override]
              IN  HttpResponse(200, "200 OK", <<Wire(new)>>,
                               (store \ {old}) \cup {new}, clk + 1)

\* DELETE /v1/secrets/
ServerDelete(store, clk, app, env, id) ==
    LET hit == {s \in InScope(store, app, env) : s.ID = id} IN
    IF hit = {}
    THEN HttpResponse(404, "404 Not Found", <<>>, store, clk)
    ELSE HttpResponse(200, "200 OK", <<>>, store \ hit, clk)

\* The tags the API finds in a tag filter: what stands between its commas.
RequestedTags(filter) == {filter[j] : j \in 1..Len(filter)} \ {","}

\* The secrets a GET matches: those of (app, env), of the key when one is
\* given, and carrying at least one of the comma-joined tags when a tag
\* filter is given.
Matching(store, app, env, key, tags) ==
    {s \in InScope(store, app, env) :
        /\ key = "" \/ s.Key = key
        /\ Len(tags) = 0 \/ \E i \in 1..Len(s.Tags) : s.Tags[i] \in RequestedTags(tags)}

RECURSIVE Sorted(_, _)
\* The secrets of S as a list, by creation order ("asc") or its reverse.
Sorted(S, ord) ==
    IF S = {} THEN <<>>
    ELSE LET m == CHOOSE s \in S : \A t \in S :
                      IF ord = "asc" THEN s.seq <= t.seq ELSE s.seq >= t.seq
         IN  <<Wire(m)>> \o Sorted(S \ {m}, ord)

Orders == {"asc", "desc"}

\* GET /v1/secrets/ : the order of the result is the API's choice.
ServerRead(store, clk, app, env, key, tags, ord) ==
    HttpResponse(200, "200 OK", Sorted(Matching(store, app, env, key, tags), ord), store, clk)

(* ------------------------------------------------------------------ *)
(* The HTTP client wrapper                                              *)
(* ------------------------------------------------------------------ *)

\* http.StatusOK
StatusOK == 200

\* The Authorization header: "<tokenType> <c.Token>".
setHeaders(c, tokenType) == <<tokenType, c.Token>>

\* fmt.Sprintf("Bearer %s", client.TokenType)
TokenScheme(c) == <<"Bearer", c.TokenType>>

\* One request as the log keeps it, with the outcome the client saw.
Entry(op, c, tokenType, appID, env, key, id, body, tags, resp, err) ==
    [op |-> op, tokenType |-> tokenType, app |-> appID, env |-> env,
     key |-> key, id |-> id, body |-> body, tags |-> tags,
     host |-> c.HostURL, auth |-> setHeaders(c, tokenType),
     insecure |-> c.HTTPClient.InsecureSkipVerify,
     transport |-> resp.transport, code |-> resp.StatusCode, status |-> resp.Status,
     raw |-> resp.raw, decodable |-> resp.decodable, count |-> Len(resp.body),
     returned |-> IF err = NoErr THEN resp.body ELSE <<>>, err |-> err]

\* The response handling reporting an empty list as a failed request.
MutationErr_EmptyAsStatus(resp, what, none) ==
    IF resp.transport THEN <<"transport error">>
    ELSE IF resp.StatusCode # StatusOK THEN <<what, resp.Status>>
    ELSE IF ~resp.decodable THEN <<"invalid character in response body">>
    ELSE IF Len(resp.body) = 0 THEN <<what, resp.Status>>
    ELSE NoErr

\* The error a mutation's response decodes to (nil when it carries a secret).
MutationErr(resp, what, none) ==
    IF resp.transport THEN <<"transport error">>
    ELSE IF resp.StatusCode # StatusOK THEN <<what, resp.Status>>
    ELSE IF ~resp.decodable THEN <<"invalid character in response body">>
    ELSE IF Len(resp.body) = 0 THEN <<none>>
    ELSE NoErr

Reply(resp, err, entry) ==
    [val |-> IF err = NoErr THEN resp.body ELSE <<>>, err |-> err,
     store |-> resp.store, clock |-> resp.clock, entry |-> entry]

\* Each client call is the set of ways it can return, one per response.
CreateSecret(c, store, clk, appID, env, tokenType, secret) ==
    {LET err == MutationErr(resp, "failed to create secret: ", "no secret created")
     IN  Reply(resp, err,
               Entry("Create", c, tokenType, appID, env, "", "", secret, <<>>, resp, err)) :
        resp \in Exchange(ServerCreate(store, clk, appID, env, Marshal(secret)),
                          {CreatedStatus}, Faults, store, clk)}

UpdateSecret(c, store, clk, appID, env, tokenType, secret) ==
    {LET err == MutationErr(resp, "failed to update secret: ", "no secret updated")
     IN  Reply(resp, err,
               Entry("Update", c, tokenType, appID, env, "", "", secret, <<>>, resp, err)) :
        resp \in Exchange(ServerUpdate(store, clk, appID, env, Marshal(secret)), {},
                          Faults, store, clk)}

\* Delete without the check of the response's status code.
DeleteSecret_AnyStatus(c, store, clk, appID, env, secretID, tokenType) ==
    {LET err == IF resp.transport THEN <<"transport error">> ELSE NoErr
     IN  Reply(resp, err,
               Entry("Delete", c, tokenType, appID, env, "", secretID, ZeroSecret, <<>>,
                     resp, err)) :
        resp \in Exchange(ServerDelete(store, clk, appID, env, secretID),
                          {NoContentStatus}, {"transport", "status"}, store, clk)}

DeleteSecret(c, store, clk, appID, env, secretID, tokenType) ==
    {LET err == IF resp.transport THEN <<"transport error">>
                ELSE IF resp.StatusCode # StatusOK
                     THEN <<"failed to delete secret: ", resp.Status>>
                     ELSE NoErr
     IN  Reply(resp, err,
               Entry("Delete", c, tokenType, appID, env, "", secretID, ZeroSecret, <<>>,
                     resp, err)) :
        resp \in Exchange(ServerDelete(store, clk, appID, env, secretID),
                          {NoContentStatus}, {"transport", "status"}, store, clk)}

\* The read by key and optional tag filter that the callbacks call; it
\* returns every secret the API matched, and fails when there is none.
ReadSecret(c, store, clk, appID, env, key, tokenType, tags) ==
    {LET err == MutationErr(resp, "failed to read secret: ", "secret not found")
     IN  Reply(resp, err,
               Entry("Read", c, tokenType, appID, env, key, "", ZeroSecret, tags, resp,
                     err)) :
        resp \in UNION {Exchange(ServerRead(store, clk, appID, env, key, tags, ord),
                                 {}, Faults, store, clk) : ord \in Orders}}

(* ------------------------------------------------------------------ *)
(* The phase_secret resource                                            *)
(* ------------------------------------------------------------------ *)

\* A ResourceData with no identifier: the resource is absent from state.
AbsentData ==
    [id |-> "", app_id |-> "", env |-> "", key |-> "", value |-> "", comment |-> "",
     path |-> "", tags |-> <<>>, version |-> 0, created_at |-> "", updated_at |-> "",
     override |-> <<>>]

\* The ResourceData a callback receives: the declared attributes over the
\* prior state's identifier and computed attributes.
Plan(c, prior) ==
    [prior EXCEPT !.app_id = c.app_id, !.env = c.env, !.key = c.key, !.value = c.value,
                  !.comment = c.comment, !.path = c.path, !.tags = c.tags,
                  !.override = c.override]

\* The attributes the host compares to decide whether an update is due.
HasDiff(c, st) ==
    \/ c.key # st.key
    \/ c.value # st.value
    \/ c.comment # st.comment
    \/ c.path # st.path
    \/ c.tags # st.tags
    \/ c.override # st.override

\* The Secret built without the branch that copies the declared tags.
SecretFromData_NoTags(dd, id) ==
    [ZeroSecret EXCEPT
        !.ID = id, !.Key = dd.key, !.Value = dd.value, !.Comment = dd.comment,
        !.Path = dd.path,
        !.Override = IF Len(dd.override) > 0
                     THEN MkOverride(dd.override[1].value, dd.override[1].is_active)
                     ELSE NilOverride]

\* The Secret a create or update callback builds from its ResourceData.
SecretFromData(dd, id) ==
    [ZeroSecret EXCEPT
        !.ID = id, !.Key = dd.key, !.Value = dd.value, !.Comment = dd.comment,
        !.Path = dd.path,
        !.Tags = dd.tags,
        !.tagsNil = (Len(dd.tags) = 0),
        !.Override = IF Len(dd.override) > 0
                     THEN MkOverride(dd.override[1].value, dd.override[1].is_active)
                     ELSE NilOverride]

SetId(dd, id) == [dd EXCEPT !.id = id]

\* The conflict test taking every error of Create for a conflict.
IsConflict_AnyError(err) == err # NoErr

\* strings.Contains(err.Error(), "409 Conflict")
IsConflict(err) == ErrContains(err, "409 Conflict")

\* secrets[0]: the secret the refresh takes out of what Read returned.
SelectSecret(secrets) == secrets[1]

\* existingSecrets[0].ID: the identifier the conflict path updates.
ExistingID(existingSecrets) == existingSecrets[1].ID

\* An override counted as active whenever it is present.
OverrideActive_AnyOverride(secret) == secret.Override.present

\* The value a read exposes for a secret.
OverrideActive(secret) == secret.Override.present /\ secret.Override.IsActive

\* The d.Set calls of resourceSecretRead.
ApplyRead(dd, secret) ==
    [dd EXCEPT
        !.id = secret.ID, !.key = secret.Key, !.comment = secret.Comment,
        !.path = secret.Path,
        !.tags = IF ~secret.tagsNil THEN secret.Tags ELSE dd.tags,
        !.version = secret.Version, !.created_at = secret.CreatedAt,
        !.updated_at = secret.UpdatedAt,
        !.value = IF OverrideActive(secret) THEN secret.Override.Value ELSE secret.Value,
        !.override = IF OverrideActive(secret)
                     THEN <<[value |-> secret.Override.Value,
                             is_active |-> secret.Override.IsActive]>>
                     ELSE <<>>]

\* What a callback leaves behind: the ResourceData, the diagnostics, the
\* remote API after its requests, and the requests.
Done(dd, err, store, clk, entries) ==
    [d |-> dd, err |-> err, store |-> store, clock |-> clk, log |-> entries]

\* The callbacks are the sets of ways they can end, one per combination of
\* responses to the requests they issue.
resourceSecretRead(c, dd, store, clk) ==
    {IF rd.err # NoErr
     THEN Done(dd, rd.err, rd.store, rd.clock, <<rd.entry>>)
     ELSE IF Len(rd.val) = 0
     THEN Done(dd, <<"No secrets found">>, rd.store, rd.clock, <<rd.entry>>)
     ELSE Done(ApplyRead(dd, SelectSecret(rd.val)), NoErr, rd.store, rd.clock,
               <<rd.entry>>) :
        rd \in ReadSecret(c, store, clk, dd.app_id, dd.env, dd.key, TokenScheme(c), <<>>)}

\* The refresh after a mutation without the identifier being set first.
SetIdAndRead_ReadOnly(c, dd, mutated, store, clk, sofar) ==
    {Done(rr.d, rr.err, rr.store, rr.clock, sofar \o rr.log) :
        rr \in resourceSecretRead(c, dd, store, clk)}

\* d.SetId(<the mutation's id>); return resourceSecretRead(ctx, d, meta)
SetIdAndRead(c, dd, mutated, store, clk, sofar) ==
    {Done(rr.d, rr.err, rr.store, rr.clock, sofar \o rr.log) :
        rr \in resourceSecretRead(c, SetId(dd, mutated.ID), store, clk)}

\* The conflict path once Read has returned: update the secret found.
UpdateExisting(c, dd, secret, cr, rd) ==
    LET withID == [secret EXCEPT !.ID = ExistingID(rd.val)] IN
    UNION {IF up.err # NoErr
           THEN {Done(dd, Wrap("error updating existing secret: ", up.err), up.store,
                      up.clock, <<cr.entry, rd.entry, up.entry>>)}
           ELSE SetIdAndRead(c, dd, up.val[1], up.store, up.clock,
                             <<cr.entry, rd.entry, up.entry>>) :
              up \in UpdateSecret(c, rd.store, rd.clock, dd.app_id, dd.env, TokenScheme(c),
                                  withID)}

\* The conflict path: read the existing secret by the declared key.
OnConflict(c, dd, secret, cr) ==
    UNION {IF rd.err # NoErr
           THEN {Done(dd, Wrap("error reading existing secret: ", rd.err), rd.store,
                      rd.clock, <<cr.entry, rd.entry>>)}
           ELSE IF Len(rd.val) > 0
           THEN UpdateExisting(c, dd, secret, cr, rd)
           ELSE {Done(dd, Wrap("received 409 Conflict but couldn't find existing secret: ",
                               cr.err),
                      rd.store, rd.clock, <<cr.entry, rd.entry>>)} :
              rd \in ReadSecret(c, cr.store, cr.clock, dd.app_id, dd.env, secret.Key,
                                TokenScheme(c), <<>>)}

resourceSecretCreate(c, dd, store, clk) ==
    LET secret == SecretFromData(dd, "") IN
    UNION {IF cr.err # NoErr
           THEN IF IsConflict(cr.err)
                THEN OnConflict(c, dd, secret, cr)
                ELSE {Done(dd, cr.err, cr.store, cr.clock, <<cr.entry>>)}
           ELSE SetIdAndRead(c, dd, cr.val[1], cr.store, cr.clock, <<cr.entry>>) :
              cr \in CreateSecret(c, store, clk, dd.app_id, dd.env, TokenScheme(c), secret)}

\* The update callback refreshing the state although its Update failed.
resourceSecretUpdate_RefreshOnError(c, dd, store, clk) ==
    LET secret == SecretFromData(dd, dd.id) IN
    UNION {{Done(rr.d, IF up.err # NoErr THEN up.err ELSE rr.err, rr.store, rr.clock,
                 <<up.entry>> \o rr.log) :
               rr \in resourceSecretRead(c, dd, up.store, up.clock)} :
              up \in UpdateSecret(c, store, clk, dd.app_id, dd.env, TokenScheme(c), secret)}

\* The update callback sending its Update a second time when it failed.
resourceSecretUpdate_RetryOnce(c, dd, store, clk) ==
    LET secret == SecretFromData(dd, dd.id) IN
    UNION {IF up.err # NoErr
           THEN {Done(dd, again.err, again.store, again.clock, <<up.entry, again.entry>>) :
                    again \in UpdateSecret(c, up.store, up.clock, dd.app_id, dd.env,
                                           TokenScheme(c), secret)}
           ELSE {Done(rr.d, rr.err, rr.store, rr.clock, <<up.entry>> \o rr.log) :
                    rr \in resourceSecretRead(c, dd, up.store, up.clock)} :
              up \in UpdateSecret(c, store, clk, dd.app_id, dd.env, TokenScheme(c), secret)}

resourceSecretUpdate(c, dd, store, clk) ==
    LET secret == SecretFromData(dd, dd.id) IN
    UNION {IF up.err # NoErr
           THEN {Done(dd, up.err, up.store, up.clock, <<up.entry>>)}
           ELSE {Done(rr.d, rr.err, rr.store, rr.clock, <<up.entry>> \o rr.log) :
                    rr \in resourceSecretRead(c, dd, up.store, up.clock)} :
              up \in UpdateSecret(c, store, clk, dd.app_id, dd.env, TokenScheme(c), secret)}

\* The delete callback clearing the identifier before it looks at the error.
resourceSecretDelete_ClearFirst(c, dd, store, clk) ==
    LET secretID == dd.id IN
    {Done(SetId(dd, ""), del.err, del.store, del.clock, <<del.entry>>) :
        del \in DeleteSecret(c, store, clk, dd.app_id, dd.env, secretID, TokenScheme(c))}

resourceSecretDelete(c, dd, store, clk) ==
    LET secretID == dd.id IN
    {IF del.err # NoErr
     THEN Done(dd, del.err, del.store, del.clock, <<del.entry>>)
     ELSE Done(SetId(dd, ""), NoErr, del.store, del.clock, <<del.entry>>) :
        del \in DeleteSecret(c, store, clk, dd.app_id, dd.env, secretID, TokenScheme(c))}

\* "{app_id}:{env}:{path}:{key}": the id the import of a secret is asked
\* for with.
CompositeId(appID, env, path, key) == appID \o ":" \o env \o ":" \o path \o ":" \o key

\* The host's import of a phase_secret: resourceSecret declares no
\* Importer, so the request is refused before any callback runs.
ImportResourceState(importID, store, clk) ==
    {Done(AbsentData, <<"resource phase_secret doesn't support import">>, store, clk, <<>>)}

(* ------------------------------------------------------------------ *)
(* The phase_secrets data source                                        *)
(* ------------------------------------------------------------------ *)

NoData == [id |-> "", path |-> "", secrets |-> <<>>, set |-> FALSE]

RECURSIVE JoinFrom(_, _)
\* strings.Join(tags, ","), from the i-th tag on.
JoinFrom(tags, i) ==
    IF i > Len(tags) THEN ""
    ELSE IF i = Len(tags) THEN tags[i]
    ELSE tags[i] \o "," \o JoinFrom(tags, i + 1)

RECURSIVE JoinParts(_, _)
\* strings.Join(tags, ",") as the tags and the commas between them.
JoinParts(tags, i) ==
    IF i > Len(tags) THEN <<>>
    ELSE IF i = Len(tags) THEN <<tags[i]>>
    ELSE <<tags[i], ",">> \o JoinParts(tags, i + 1)

\* The tag filter with only the first declared tag in it.
TagsFilter_FirstOnly(tags) ==
    [text |-> IF Len(tags) > 0 THEN tags[1] ELSE "",
     parts |-> IF Len(tags) > 0 THEN <<tags[1]>> ELSE <<>>]

\* The tag filter the data source sends: as text, and as the tags and
\* commas the text is made of.
TagsFilter(tags) ==
    IF Len(tags) > 0
    THEN [text |-> JoinFrom(tags, 1), parts |-> JoinParts(tags, 1)]
    ELSE [text |-> "", parts |-> <<>>]

\* The value a secret is exposed with.
EffectiveValue(secret) ==
    IF OverrideActive(secret) THEN secret.Override.Value ELSE secret.Value

\* The assignment to a map entry keeping the value a key already has.
MapPut_KeepFirst(m, k, v) ==
    [x \in (DOMAIN m) \cup {k} |-> IF x \in DOMAIN m THEN m[x] ELSE v]

\* secretMap[k] = v
MapPut(m, k, v) == [x \in (DOMAIN m) \cup {k} |-> IF x = k THEN v ELSE m[x]]

EmptyMap == [x \in {} |-> ""]

RECURSIVE SecretMap(_, _, _)
\* The loop taking the empty path for the root path.
SecretMap_RootDefault(secrets, path, n) ==
    IF n = 0 THEN EmptyMap
    ELSE LET m      == SecretMap(secrets, path, n - 1)
             secret == secrets[n]
             wanted == IF path = "" THEN "/" ELSE path
         IN  IF secret.Path = wanted
             THEN MapPut(m, secret.Key, EffectiveValue(secret))
             ELSE m

\* The loop without the comparison of the secret's path.
SecretMap_AnyPath(secrets, path, n) ==
    IF n = 0 THEN EmptyMap
    ELSE LET m      == SecretMap(secrets, path, n - 1)
             secret == secrets[n]
         IN  MapPut(m, secret.Key, EffectiveValue(secret))

\* The loop over the first n secrets returned, filling secretMap.
SecretMap(secrets, path, n) ==
    IF n = 0 THEN EmptyMap
    ELSE LET m           == SecretMap(secrets, path, n - 1)
             secret      == secrets[n]
             fetchingAll == (path = "")
         IN  IF fetchingAll \/ secret.Path = path
             THEN MapPut(m, secret.Key, EffectiveValue(secret))
             ELSE m

\* fmt.Sprintf("%s-%s-%s-%s-%s", appID, env, path, key, tagsFilter)
DataSourceId(appID, env, path, key, tagsFilter) ==
    appID \o "-" \o env \o "-" \o path \o "-" \o key \o "-" \o tagsFilter

dataSourceSecretsRead(c, dc, store, clk) ==
    LET tagsFilter == TagsFilter(dc.tags) IN
    {IF rd.err # NoErr
     THEN Done(NoData, rd.err, rd.store, rd.clock, <<rd.entry>>)
     ELSE Done([id |-> DataSourceId(dc.app_id, dc.env, dc.path, dc.key, tagsFilter.text),
                path |-> dc.path,
                secrets |-> SecretMap(rd.val, dc.path, Len(rd.val)),
                set |-> TRUE],
               NoErr, rd.store, rd.clock, <<rd.entry>>) :
        rd \in ReadSecret(c, store, clk, dc.app_id, dc.env, dc.key, TokenScheme(c),
                          tagsFilter.parts)}

(* ------------------------------------------------------------------ *)
(* Credentials: strings are sequences of characters here                *)
(* ------------------------------------------------------------------ *)

\* {64}: the length of each hexadecimal field of the token patterns.
HexLen == 64

\* The number of hexadecimal fields the token patterns require.
HexGroups == 4

Digit == {"0", "1", "2", "3", "4", "5", "6", "7", "8", "9"}

\* [a-fA-F0-9]
HexChar == Digit \cup {"a", "b", "c", "d", "e", "f", "A", "B", "C", "D", "E", "F"}

PssUserPrefix == <<"p", "s", "s", "_", "u", "s", "e", "r", ":", "v">>

PssServicePrefix == <<"p", "s", "s", "_", "s", "e", "r", "v", "i", "c", "e", ":", "v">>

RECURSIVE DigitRun(_, _)
\* The number of digits of s from position i on: what (\d+) consumes.
DigitRun(s, i) ==
    IF i <= Len(s) /\ s[i] \in Digit THEN 1 + DigitRun(s, i + 1) ELSE 0

\* ":" followed by exactly HexLen hexadecimal characters, at position i.
HexFieldAt(s, i) ==
    /\ i + HexLen <= Len(s)
    /\ s[i] = ":"
    /\ \A j \in (i + 1)..(i + HexLen) : s[j] \in HexChar

\* The patterns with three hexadecimal groups in place of four.
MatchString_ThreeGroups(prefix, s) ==
    /\ Len(s) >= Len(prefix)
    /\ SubSeq(s, 1, Len(prefix)) = prefix
    /\ LET k == DigitRun(s, Len(prefix) + 1)
           p == Len(prefix) + 1 + k
       IN  /\ k >= 1
           /\ \A g \in 0..2 : HexFieldAt(s, p + g * (HexLen + 1))
           /\ Len(s) = p + 3 * (HexLen + 1) - 1

\* ^<prefix>(\d+)(:[a-fA-F0-9]{64}){4}$ with the groups written out, as in
\* PssUserPattern and PssServicePattern.
MatchString(prefix, s) ==
    /\ Len(s) >= Len(prefix)
    /\ SubSeq(s, 1, Len(prefix)) = prefix
    /\ LET k == DigitRun(s, Len(prefix) + 1)
           p == Len(prefix) + 1 + k
       IN  /\ k >= 1
           /\ \A g \in 0..(HexGroups - 1) : HexFieldAt(s, p + g * (HexLen + 1))
           /\ Len(s) = p + HexGroups * (HexLen + 1) - 1

RECURSIVE Split(_, _, _)
\* strings.Split(s, sep) from position i on, for a one-character sep.
Split(s, sep, i) ==
    LET rest == {j \in i..Len(s) : s[j] = sep} IN
    IF rest = {} THEN <<SubSeq(s, i, Len(s))>>
    ELSE LET j == CHOOSE x \in rest : \A y \in rest : x <= y
         IN  <<SubSeq(s, i, j - 1)>> \o Split(s, sep, j + 1)

\* The classification comparing the version with "2" in place of "v2".
extractTokenInfo_BareVersion(phaseToken) ==
    LET parts == Split(phaseToken, ":", 1) IN
    IF MatchString(PssServicePrefix, phaseToken) /\ Len(parts) >= 3
    THEN IF parts[2] = <<"2">>
         THEN [kind |-> "ServiceAccount", bearer |-> parts[3]]
         ELSE [kind |-> "Service", bearer |-> parts[3]]
    ELSE IF MatchString(PssUserPrefix, phaseToken) /\ Len(parts) >= 3
    THEN [kind |-> "User", bearer |-> parts[3]]
    ELSE [kind |-> "", bearer |-> phaseToken]

extractTokenInfo(phaseToken) ==
    LET parts == Split(phaseToken, ":", 1) IN
    IF MatchString(PssServicePrefix, phaseToken) /\ Len(parts) >= 3
    THEN IF parts[2] = <<"v", "2">>
         THEN [kind |-> "ServiceAccount", bearer |-> parts[3]]
         ELSE [kind |-> "Service", bearer |-> parts[3]]
    ELSE IF MatchString(PssUserPrefix, phaseToken) /\ Len(parts) >= 3
    THEN [kind |-> "User", bearer |-> parts[3]]
    ELSE [kind |-> "", bearer |-> phaseToken]

DefaultHostURL == "https://api.phase.dev"

\* &http.Client{}: no Transport of its own, so requests go through the
\* default transport, which validates certificates.
DefaultHTTPClient == [InsecureSkipVerify |-> FALSE]

NoClient ==
    [HostURL |-> "", HTTPClient |-> DefaultHTTPClient, Token |-> <<>>, TokenType |-> "",
     SkipTLSVerification |-> FALSE, configured |-> FALSE]

providerConfigure(phaseToken, host, skipTLSVerification) ==
    LET info == extractTokenInfo(phaseToken) IN
    [HostURL |-> IF host # DefaultHostURL THEN host \o "/service/public" ELSE host,
     HTTPClient |-> DefaultHTTPClient, Token |-> info.bearer, TokenType |-> info.kind,
     SkipTLSVerification |-> skipTLSVerification, configured |-> TRUE]

(* ------------------------------------------------------------------ *)
(* Inputs                                                               *)
(* ------------------------------------------------------------------ *)

\* The largest number of fields after the version in a generated credential.
MaxHexFields == 5

Rep(ch, n) == [i \in 1..n |-> ch]

SchemeService == SubSeq(PssServicePrefix, 1, Len(PssServicePrefix) - 2)

SchemeUser == SubSeq(PssUserPrefix, 1, Len(PssUserPrefix) - 2)

Schemes == {SchemeService, SchemeUser, <<"p", "s", "s">>}

Versions ==
    {<<"v", "1">>, <<"v", "2">>, <<"v", "1", "0">>, <<"v", "0", "2">>, <<"v">>, <<"2">>,
     <<"v", "x">>}

\* One hexadecimal character per field position, so that fields differ.
FieldChar == <<"a", "F", "0", "9", "c", "B", "7", "e", "D", "3">>

FieldKinds == {"short", "long", "nothex"}

\* The k-th field after the version; bad names the field to spoil, if any.
Field(k, bad) ==
    LET ch == FieldChar[((k - 1) % Len(FieldChar)) + 1] IN
    IF bad.at # k THEN Rep(ch, HexLen)
    ELSE CASE bad.kind = "short" -> Rep(ch, HexLen - 1)
           [] bad.kind = "long" -> Rep(ch, HexLen + 1)
           [] OTHER -> Rep(ch, HexLen - 1) \o <<"g">>

RECURSIVE Fields(_, _, _)
\* ":" and the k-th field, up to the n-th.
Fields(k, n, bad) ==
    IF k > n THEN <<>> ELSE <<":">> \o Field(k, bad) \o Fields(k + 1, n, bad)

MkToken(scheme, version, n, bad) == scheme \o <<":">> \o version \o Fields(1, n, bad)

NoBad == [at |-> 0, kind |-> "none"]

Tokens ==
    {MkToken(sc, v, n, b) :
        sc \in Schemes, v \in Versions,
        <<n, b>> \in {<<m, c>> \in (0..MaxHexFields) \X
                                  ({NoBad} \cup [at : 1..MaxHexFields, kind : FieldKinds]) :
                          c.at <= m}}
    \cup {<<>>,
          MkToken(SchemeUser, <<"v", "1">>, HexGroups, NoBad) \o <<"\n">>,
          <<" ">> \o MkToken(SchemeService, <<"v", "2">>, HexGroups, NoBad)}

Hosts == {DefaultHostURL, "https://phase.example.com"}

\* The credential of the lifecycle runs: a personal access token.
UserToken == MkToken(SchemeUser, <<"v", "1">>, HexGroups, NoBad)

AppID == "A1"

EnvName == "prod"

MkConfig(value, comment, path, tags, override) ==
    [app_id |-> AppID, env |-> EnvName, key |-> "DB_PASS", value |-> value,
     comment |-> comment, path |-> path, tags |-> tags, override |-> override]

\* The declared configurations of the phase_secret resource.
Configs ==
    {MkConfig("abc123", "", "/db", <<"database">>, <<>>),
     MkConfig("xyz789", "rotated", "/db", <<>>, <<>>),
     MkConfig("abc123", "", "/", <<>>, <<>>),
     MkConfig("abc123", "", "/db", <<"database">>,
              <<[value |-> "mine", is_active |-> TRUE]>>),
     MkConfig("abc123", "", "/db", <<>>, <<[value |-> "mine", is_active |-> FALSE]>>)}

MkStored(n, app, key, value, comment, path, tags, override) ==
    [app |-> app, env |-> EnvName, seq |-> 0 - n, ID |-> "pre-" \o ToString(n),
     Key |-> key, Value |-> value, Comment |-> comment, Path |-> path, Tags |-> tags,
     Version |-> 1, CreatedAt |-> "t0", UpdatedAt |-> "t0", Override |-> override]

\* Secrets the remote API may hold before the provider runs.
PreExisting ==
    {MkStored(1, AppID, "DB_PASS", "legacy", "old", "/", <<"infra">>,
              MkOverride("personal", TRUE)),
     MkStored(2, AppID, "DB_PASS", "hunter2", "old", "/db", <<"database">>, NilOverride),
     MkStored(3, AppID, "API_KEY", "k-123", "", "/db", <<"database", "infra">>,
              MkOverride("staged", FALSE)),
     MkStored(4, "A2", "DB_PASS", "other", "", "/db", <<>>, NilOverride)}

\* The secrets of the declared key come and go; the others are always there.
InitialStores ==
    {S \cup {s \in PreExisting : s.app # AppID \/ s.Key # "DB_PASS"} :
        S \in SUBSET {s \in PreExisting : s.app = AppID /\ s.Key = "DB_PASS"}}

\* The ids an import is asked for.
ImportIds == {CompositeId(AppID, EnvName, path, "DB_PASS") : path \in {"/", "/db"}}

\* The configuration, the remote contents and the data source arguments
\* the host's operations start from when all of them are exercised
\* together.
HostConfigs == {MkConfig("abc123", "", "/db", <<"database">>, <<>>)}

HostStores ==
    {PreExisting \cup
        {MkStored(5, AppID, "legacy-DB_PASS", "hunter1", "", "/db", <<>>, NilOverride)}}

HostDataConfigs ==
    {[app_id |-> AppID, env |-> EnvName, path |-> <<"/db">>, key |-> "legacy-DB_PASS",
      tags |-> <<>>],
     [app_id |-> AppID, env |-> EnvName, path |-> <<"/db-legacy">>, key |-> "DB_PASS",
      tags |-> <<>>]}

\* The declared arguments of the phase_secrets data source; path is <<>>
\* when the argument is omitted.
DataConfigs ==
    [app_id : {AppID}, env : {EnvName}, path : {<<>>, <<"">>, <<"/">>, <<"/db">>},
     key : {"", "DB_PASS"}, tags : {<<>>, <<"database">>, <<"database", "infra">>}]

\* The ResourceData of a data source read: the schema's Default stands in
\* for an omitted path.
DataArgs(dc) ==
    [app_id |-> dc.app_id, env |-> dc.env,
     path |-> IF dc.path = <<>> THEN "/" ELSE dc.path[1],
     key |-> dc.key, tags |-> dc.tags, declared_path |-> dc.path]

(* ------------------------------------------------------------------ *)
(* The state machine                                                    *)
(* ------------------------------------------------------------------ *)

\* A secret of store2 whose key was not that secret's key in store1.
Appeared(store1, store2) ==
    {s \in store2 : ~\E t \in store1 : t.ID = s.ID /\ t.Key = s.Key}

\* The secret a successful delete callback was called for, when the
\* resource's own Create made it.
Deleted(fn, given, r, store) ==
    IF fn = "delete" /\ r.err = NoErr
    THEN {[ID |-> t.ID, app |-> t.app, env |-> t.env, Key |-> t.Key] :
             t \in {u \in store : u.ID = given.id /\ u.seq > 0}}
    ELSE {}

\* What every callback does to the remote API and to the record of the run.
Finish(fn, given, data, r) ==
    /\ remote' = r.store
    /\ clock' = r.clock
    /\ log' = r.log
    /\ ret' = [fn |-> fn, err |-> r.err, given |-> given, data |-> data]
    /\ gone' = {g \in gone \cup Deleted(fn, given, r, remote) :
                   ~\E s \in Appeared(remote, r.store) :
                        s.app = g.app /\ s.env = g.env /\ s.Key = g.Key}

Init ==
    /\ phase_token = UserToken
    /\ client = providerConfigure(UserToken, DefaultHostURL, FALSE)
    /\ cfg \in Configs
    /\ d = AbsentData
    /\ tainted = FALSE
    /\ remote \in InitialStores
    /\ clock = 0
    /\ log = <<>>
    /\ ret = [fn |-> "", err |-> NoErr, given |-> AbsentData, data |-> NoData]
    /\ gone = {}

Create ==
    /\ d.id = ""
    /\ clock < MaxClock
    /\ LET given == Plan(cfg, AbsentData) IN
       \E r \in resourceSecretCreate(client, given, remote, clock) :
          /\ Finish("create", given, NoData, r)
          /\ d' = IF r.d.id = "" THEN AbsentData ELSE r.d
          /\ tainted' = (r.err # NoErr /\ r.d.id # "")
    /\ UNCHANGED <<phase_token, client, cfg>>

\* A refresh that blanks the bearer token of the shared client.
Refresh_DropsToken ==
    /\ d.id # ""
    /\ \E r \in resourceSecretRead(client, d, remote, clock) :
          /\ Finish("read", d, NoData, r)
          /\ d' = r.d
    /\ client' = [client EXCEPT !.Token = <<>>]
    /\ UNCHANGED <<phase_token, cfg, tainted>>

Refresh ==
    /\ d.id # ""
    /\ \E r \in resourceSecretRead(client, d, remote, clock) :
          /\ Finish("read", d, NoData, r)
          /\ d' = r.d
    /\ UNCHANGED <<phase_token, client, cfg, tainted>>

Update ==
    /\ d.id # ""
    /\ ~tainted
    /\ clock < MaxClock
    /\ \E c2 \in Configs :
          /\ HasDiff(c2, d)
          /\ LET given == Plan(c2, d) IN
             \E r \in resourceSecretUpdate(client, given, remote, clock) :
                /\ Finish("update", given, NoData, r)
                /\ d' = r.d
                /\ cfg' = c2
    /\ UNCHANGED <<phase_token, client, tainted>>

Delete ==
    /\ d.id # ""
    /\ \E r \in resourceSecretDelete(client, d, remote, clock) :
          /\ Finish("delete", d, NoData, r)
          /\ d' = IF r.d.id = "" THEN AbsentData ELSE r.d
          /\ tainted' = (tainted /\ r.d.id # "")
    /\ UNCHANGED <<phase_token, client, cfg>>

\* A read of a phase_secrets data source declared with one of configs.
DataReadOf(configs) ==
    /\ \E dc \in configs :
          LET given == DataArgs(dc) IN
          \E r \in dataSourceSecretsRead(client, given, remote, clock) :
             Finish("data", given, r.d, r)
    /\ UNCHANGED <<phase_token, client, cfg, d, tainted>>

DataRead == DataReadOf(DataConfigs)

HostDataRead == DataReadOf(HostDataConfigs)

\* terraform import phase_secret.<name> "<id>"
Import ==
    /\ d.id = ""
    /\ \E importID \in ImportIds :
          \E r \in ImportResourceState(importID, remote, clock) :
             /\ Finish("import", SetId(AbsentData, importID), NoData, r)
             /\ d' = r.d
    /\ UNCHANGED <<phase_token, client, cfg, tainted>>

Next == Create \/ Refresh \/ Update \/ Delete

Spec == Init /\ [][Next]_vars

\* The data source read next to the resource being created and refreshed.
NextData == Create \/ Refresh \/ DataRead

SpecData == Init /\ [][NextData]_vars

\* Every operation of the host, on a provider configured with either
\* setting of skip_tls_verification.
InitHost ==
    /\ phase_token = UserToken
    /\ \E skip \in BOOLEAN : client = providerConfigure(UserToken, DefaultHostURL, skip)
    /\ cfg \in HostConfigs
    /\ d = AbsentData
    /\ tainted = FALSE
    /\ remote \in HostStores
    /\ clock = 0
    /\ log = <<>>
    /\ ret = [fn |-> "", err |-> NoErr, given |-> AbsentData, data |-> NoData]
    /\ gone = {}

NextHost == Create \/ Refresh \/ Update \/ Delete \/ HostDataRead \/ Import

SpecHost == InitHost /\ [][NextHost]_vars

\* The provider block being configured with a credential.
InitToken ==
    /\ phase_token \in Tokens
    /\ client = NoClient
    /\ cfg \in {MkConfig("abc123", "", "/db", <<"database">>, <<>>)}
    /\ d = AbsentData
    /\ tainted = FALSE
    /\ remote = {}
    /\ clock = 0
    /\ log = <<>>
    /\ ret = [fn |-> "", err |-> NoErr, given |-> AbsentData, data |-> NoData]
    /\ gone = {}

Configure ==
    /\ ~client.configured
    /\ \E host \in Hosts, skip \in BOOLEAN :
          client' = providerConfigure(phase_token, host, skip)
    /\ UNCHANGED <<phase_token, cfg, d, tainted, remote, clock, log, ret, gone>>

NextToken == Configure

SpecToken == InitToken /\ [][NextToken]_vars

(* ------------------------------------------------------------------ *)
(* Properties                                                           *)
(* ------------------------------------------------------------------ *)

\* A request body carries the attributes declared in the ResourceData g.
CarriesDeclared(body, g) ==
    /\ body.Key = g.key
    /\ body.Value = g.value
    /\ body.Comment = g.comment
    /\ body.Path = g.path
    /\ body.Tags = g.tags
    /\ IF g.override = <<>>
       THEN ~body.Override.present
       ELSE /\ body.Override.present
            /\ body.Override.Value = g.override[1].value
            /\ body.Override.IsActive = g.override[1].is_active

\* The remote secrets at the scope, path and key declared in g.
AtDeclared(store, g) ==
    {s \in store : s.app = g.app_id /\ s.env = g.env /\ s.Path = g.path /\ s.Key = g.key}

\* The last create callback got 409 Conflict and its Read found a secret.
ConflictCase ==
    /\ ret.fn = "create"
    /\ Len(log) >= 2
    /\ log[1].op = "Create"
    /\ log[1].status = "409 Conflict"
    /\ log[2].op = "Read"
    /\ Len(log[2].returned) >= 1

\* C1: on 409 Conflict with a secret found by the declared key, the create
\* callback reads by the declared key, updates the secret found with the
\* declared attributes, reports no error for the conflict, and when the
\* Update succeeds ends with the identifier Update returned.
C1_ConflictFallsBackToUpdate ==
    ConflictCase =>
        /\ log[2].key = ret.given.key
        /\ Len(log) >= 3
        /\ log[3].op = "Update"
        /\ log[3].body.ID = log[2].returned[1].ID
        /\ CarriesDeclared(log[3].body, ret.given)
        /\ log[3].err = NoErr =>
               /\ d.id = log[3].returned[1].ID
               /\ (Len(log) = 4 /\ log[4].err = NoErr) => ret.err = NoErr

\* The create callback succeeded through the conflict path.
CreatedByUpdate ==
    /\ ret.fn = "create"
    /\ ret.err = NoErr
    /\ Len(log) = 4
    /\ log[3].op = "Update"

\* C2: after a create that succeeds through the conflict path, the secret
\* that was already at the declared (app_id, env, path, key) holds the
\* declared value, comment and tags.
C2_ConflictPathConverges ==
    CreatedByUpdate =>
        \E s \in AtDeclared(remote, ret.given) :
            /\ \E j \in 1..Len(log[2].returned) :
                   /\ log[2].returned[j].ID = s.ID
                   /\ log[2].returned[j].Path = ret.given.path
            /\ s.Value = ret.given.value
            /\ s.Comment = ret.given.comment
            /\ s.Tags = ret.given.tags

\* The conflict path changed what the remote secret held.
C2_Witness ==
    /\ CreatedByUpdate
    /\ \E j \in 1..Len(log[2].returned) :
           /\ log[2].returned[j].ID = log[3].body.ID
           /\ log[2].returned[j].Value # ret.given.value
           /\ log[2].returned[j].Tags # ret.given.tags

\* C3: after a successful create or update callback the state equals the
\* declared configuration, so the host finds nothing to update.
C3_SecondApplyNoDiff ==
    (ret.fn \in {"create", "update"} /\ ret.err = NoErr) => ~HasDiff(cfg, d)

\* C4: the secret a successful create callback selects into state is the
\* remote secret at the declared (app_id, env, path, key).
C4_SelectsDeclaredPath ==
    (ret.fn = "create" /\ ret.err = NoErr) =>
        \E s \in AtDeclared(remote, ret.given) : s.ID = d.id

\* The last request of the callback was a Read that returned secrets.
ReadApplied ==
    /\ Len(log) >= 1
    /\ log[Len(log)].op = "Read"
    /\ log[Len(log)].err = NoErr

\* The i-th returned secret passes the data source's path filter and no
\* later one of the same key does.
Exposed(returned, path, i) ==
    /\ path = "" \/ returned[i].Path = path
    /\ ~\E j \in (i + 1)..Len(returned) :
           /\ path = "" \/ returned[j].Path = path
           /\ returned[j].Key = returned[i].Key

\* C5: the resource's read and the data source's read both expose the
\* override's value when the returned secret's override is active, and
\* the base value otherwise; the resource then holds the override
\* sub-object exactly when it is active.
C5_OverridePrecedence ==
    /\ (ret.fn \in {"create", "read"} /\ ret.err = NoErr /\ ReadApplied) =>
          LET s == log[Len(log)].returned[1] IN
          IF s.Override.present /\ s.Override.IsActive
          THEN /\ d.value = s.Override.Value
               /\ d.override = <<[value |-> s.Override.Value, is_active |-> TRUE]>>
          ELSE /\ d.value = s.Value
               /\ d.override = <<>>
    /\ (ret.fn = "data" /\ ret.err = NoErr) =>
          LET returned == log[1].returned IN
          \A i \in 1..Len(returned) :
              Exposed(returned, ret.data.path, i) =>
                  /\ returned[i].Key \in DOMAIN ret.data.secrets
                  /\ ret.data.secrets[returned[i].Key] =
                         IF returned[i].Override.present /\ returned[i].Override.IsActive
                         THEN returned[i].Override.Value
                         ELSE returned[i].Value

\* A refresh exposed an active override in place of a different base value.
C5_Witness ==
    /\ ret.fn = "read"
    /\ ret.err = NoErr
    /\ log[1].returned[1].Override.IsActive
    /\ log[1].returned[1].Override.Value # log[1].returned[1].Value
    /\ d.value = log[1].returned[1].Override.Value

\* C6: a secret created by the create callback reads back with the key,
\* value, comment, path and tags that were declared.
C6_RoundTrip ==
    (ret.fn = "create" /\ ret.err = NoErr /\ Len(log) = 2 /\ log[1].err = NoErr) =>
        /\ d.key = ret.given.key
        /\ d.value = ret.given.value
        /\ d.comment = ret.given.comment
        /\ d.path = ret.given.path
        /\ d.tags = ret.given.tags

\* C7: the delete callback issues one Delete for the stored identifier in
\* the declared (app_id, env); the identifier is cleared exactly when the
\* request succeeds, and on failure the error is returned and the
\* ResourceData is as it was.
C7_DeleteByStoredId ==
    ret.fn = "delete" =>
        /\ Len(log) = 1
        /\ log[1].op = "Delete"
        /\ log[1].id = ret.given.id
        /\ log[1].app = cfg.app_id
        /\ log[1].env = cfg.env
        /\ (d.id = "") <=> (log[1].err = NoErr)
        /\ log[1].err # NoErr => (ret.err = log[1].err /\ d = ret.given)

\* A delete callback cleared the identifier it was called with.
C7_Witness ==
    /\ ret.fn = "delete"
    /\ ret.err = NoErr
    /\ ret.given.id # ""
    /\ d.id = ""

\* The ways a Read by the key of g, in the scope of g, can return now.
ReadsOf(g) ==
    ReadSecret(client, remote, clock, g.app, g.env, g.Key, TokenScheme(client), <<>>)

\* C8 as stated: once a secret the resource created is deleted, a Read by
\* its key in its (app_id, env) returns not-found until the key is
\* created again.
C8_ReadAfterDeleteNotFound ==
    \A g \in gone : \A r \in ReadsOf(g) : r.err # NoErr

\* C8 as amended: such a Read never returns the deleted secret, and it
\* returns not-found when no other secret of that key is left in the
\* (app_id, env).
C8_DeletedNeverReturned ==
    \A g \in gone : \A r \in ReadsOf(g) :
        /\ \A i \in 1..Len(r.val) : r.val[i].ID # g.ID
        /\ (~\E s \in remote : s.app = g.app /\ s.env = g.env /\ s.Key = g.Key)
               => r.err # NoErr

\* A created secret was deleted while another secret of its key remains.
C8_Witness ==
    /\ ret.fn = "delete"
    /\ ret.err = NoErr
    /\ \E g \in gone :
           /\ g.ID = ret.given.id
           /\ \E s \in remote : s.app = g.app /\ s.env = g.env /\ s.Key = g.Key

\* The data source's last read succeeded.
DataShown == ret.fn = "data" /\ ret.err = NoErr

\* The i-th returned secret passes the path argument of the data source.
PassesPath(returned, path, i) == path = "" \/ returned[i].Path = path

\* The value a returned secret is to be shown with.
ShownValue(s) ==
    IF s.Override.present /\ s.Override.IsActive THEN s.Override.Value ELSE s.Value

\* C11: with the empty path and no key the data source exposes every
\* secret Read returned, whatever its path; with a path p it exposes
\* exactly the returned secrets whose path is p.
C11_PathFilterExposure ==
    (DataShown /\ (ret.given.path # "" \/ ret.given.key = "")) =>
        LET returned == log[1].returned IN
        /\ \A i \in 1..Len(returned) :
               PassesPath(returned, ret.given.path, i) =>
                   /\ returned[i].Key \in DOMAIN ret.data.secrets
                   /\ ret.data.secrets[returned[i].Key] = ShownValue(returned[i])
        /\ \A k \in DOMAIN ret.data.secrets :
               \E i \in 1..Len(returned) :
                   /\ PassesPath(returned, ret.given.path, i)
                   /\ returned[i].Key = k

\* C11 as amended: the data source exposes the keys of exactly the
\* returned secrets that pass its path argument (every one for the empty
\* path, those of equal path otherwise), each key with the value of the
\* last returned secret of that key that passes.
C11_PathFilterKeys ==
    DataShown =>
        LET returned == log[1].returned IN
        /\ \A i \in 1..Len(returned) :
               PassesPath(returned, ret.given.path, i) =>
                   /\ returned[i].Key \in DOMAIN ret.data.secrets
                   /\ (~\E j \in (i + 1)..Len(returned) :
                           /\ PassesPath(returned, ret.given.path, j)
                           /\ returned[j].Key = returned[i].Key)
                         => ret.data.secrets[returned[i].Key] = ShownValue(returned[i])
        /\ \A k \in DOMAIN ret.data.secrets :
               \E i \in 1..Len(returned) :
                   /\ PassesPath(returned, ret.given.path, i)
                   /\ returned[i].Key = k

\* A read with a path kept one returned secret and left another out.
C11_Witness ==
    /\ DataShown
    /\ ret.given.path # ""
    /\ \E i, j \in 1..Len(log[1].returned) :
           /\ log[1].returned[i].Path = ret.given.path
           /\ log[1].returned[j].Path # ret.given.path
           /\ log[1].returned[j].Key \notin DOMAIN ret.data.secrets

ExpectedFilter(tags) ==
    CASE Len(tags) = 0 -> <<>>
      [] Len(tags) = 1 -> <<tags[1]>>
      [] OTHER -> <<tags[1], ",", tags[2]>>

\* The secrets of the data source's scope and key that carry at least one
\* of the declared tags (every one when no tag is declared).
TaggedAny(store, g) ==
    {s \in store :
        /\ s.app = g.app_id /\ s.env = g.env
        /\ g.key = "" \/ s.Key = g.key
        /\ g.tags = <<>> \/ \E i \in 1..Len(s.Tags), j \in 1..Len(g.tags) :
                                  s.Tags[i] = g.tags[j]}

\* C13: the data source sends the declared tags comma-joined in declared
\* order as one tag filter (none when no tag is declared), and the result
\* holds the secrets that carry at least one of the declared tags.
C13_TagsAnyOf ==
    ret.fn = "data" =>
        /\ Len(log) = 1
        /\ log[1].op = "Read"
        /\ log[1].tags = ExpectedFilter(ret.given.tags)
        /\ ret.err = NoErr =>
               /\ {log[1].returned[i].ID : i \in 1..Len(log[1].returned)} =
                      {s.ID : s \in TaggedAny(remote, ret.given)}
               /\ ret.given.path = "" =>
                      DOMAIN ret.data.secrets = {s.Key : s \in TaggedAny(remote, ret.given)}

\* A read for two tags exposed a secret that carries only one of them.
C13_Witness ==
    /\ DataShown
    /\ Len(ret.given.tags) = 2
    /\ \E i \in 1..Len(log[1].returned) :
           /\ Len(log[1].returned[i].Tags) = 1
           /\ log[1].returned[i].Key \in DOMAIN ret.data.secrets

\* C14: Read fails with the not-found error when the request succeeds
\* and no secret comes back, with a different error when the status is
\* not a success or the transport or the decoding fails; and a refresh
\* that gets no secret fails and leaves the state as it was.
C14_NotFoundIsDistinct ==
    /\ \A i \in 1..Len(log) :
           log[i].op = "Read" =>
               /\ (~log[i].transport /\ log[i].code = 200 /\ log[i].decodable
                      /\ log[i].count = 0)
                     => log[i].err = <<"secret not found">>
               /\ (log[i].transport \/ log[i].code # 200 \/ ~log[i].decodable)
                     => (log[i].err # NoErr /\ log[i].err # <<"secret not found">>)
    /\ (ret.fn = "read" /\ log[1].count = 0) => (ret.err # NoErr /\ d = ret.given)

\* A refresh found no secret of its key left in the scope.
C14_Witness ==
    /\ ret.fn = "read"
    /\ log[1].err = <<"secret not found">>
    /\ ret.err # NoErr
    /\ ~\E s \in remote :
           s.app = ret.given.app_id /\ s.env = ret.given.env /\ s.Key = ret.given.key

\* C15: every response with a status in 200..299 that carries what the
\* call returns is a success, and only statuses outside that range give
\* an API error.
C15_Any2xxIsSuccess ==
    \A i \in 1..Len(log) :
        /\ (~log[i].transport /\ log[i].code \in 200..299 /\ log[i].decodable
               /\ (log[i].op = "Delete" \/ log[i].count > 0))
              => log[i].err = NoErr
        /\ (~log[i].transport /\ log[i].code \notin 200..299) => log[i].err # NoErr

\* C16: the error for a response with a non-success status carries the
\* status text and the raw response body.
C16_ErrorCarriesStatusAndBody ==
    \A i \in 1..Len(log) :
        (~log[i].transport /\ log[i].code \notin 200..299) =>
            /\ ErrContains(log[i].err, log[i].status)
            /\ ErrContains(log[i].err, log[i].raw)

\* C17: every request issued through the client providerConfigure built
\* skips certificate validation when skip_tls_verification is true, and
\* validates certificates when it is false.
C17_SkipTLSHonoured ==
    \A i \in 1..Len(log) : log[i].insecure = client.SkipTLSVerification

\* The secrets stored at the scope a composite import id names.
AtComposite(importID) ==
    {s \in remote :
        \E p \in {"/", "/db"} : importID = CompositeId(s.app, s.env, p, s.Key) /\ s.Path = p}

\* C18: importing "{app_id}:{env}:{path}:{key}" where a secret exists at
\* that scope succeeds, with app_id, env, path and key set to the four
\* components and the identifier set to the server id of that secret.
C18_ImportAdoptsSecret ==
    (ret.fn = "import" /\ AtComposite(ret.given.id) # {}) =>
        /\ ret.err = NoErr
        /\ \E s \in AtComposite(ret.given.id) :
              /\ d.id = s.ID
              /\ ret.given.id = CompositeId(d.app_id, d.env, d.path, d.key)

\* The argument tuple of a data source instance.
ArgsOf(given) == <<given.app_id, given.env, given.path, given.key, given.tags>>

\* The identifiers a read of the data source with the arguments given can
\* end with now.
IdsOf(given) ==
    {r.d.id : r \in {q \in dataSourceSecretsRead(client, given, remote, clock) :
                        q.err = NoErr}}

\* C19: the identifier of a data source instance depends on its arguments
\* only, is the same whenever it is read with the same arguments, and
\* differs from the identifier of every instance whose (app_id, env, path,
\* key, tags) differ.
C19_DataSourceIdUnique ==
    DataShown =>
        /\ IdsOf(ret.given) \subseteq {ret.data.id}
        /\ \A dc \in HostDataConfigs :
              ArgsOf(DataArgs(dc)) # ArgsOf(ret.given) =>
                  ret.data.id \notin IdsOf(DataArgs(dc))

\* The number of requests of one kind the last callback issued.
Count(op) == Cardinality({i \in 1..Len(log) : log[i].op = op})

\* C20: no request is retried inside a callback. A create callback issues
\* exactly one Create, at most one Update and at most two Reads; an update
\* callback at most one Update and at most one Read; a refresh and a data
\* source read exactly one Read; a delete exactly one Delete; none issues a
\* request of another kind, and a request that failed is never followed by
\* a request of the same kind, so a callback ends after at most four
\* requests.
C20_NoRetry ==
    /\ ret.fn = "create" =>
          /\ Count("Create") = 1 /\ Count("Update") <= 1 /\ Count("Read") <= 2
          /\ Count("Delete") = 0
    /\ ret.fn = "update" =>
          /\ Count("Update") <= 1 /\ Count("Read") <= 1
          /\ Count("Create") = 0 /\ Count("Delete") = 0
    /\ ret.fn \in {"read", "data"} => Count("Read") = 1 /\ Len(log) = 1
    /\ ret.fn = "delete" => Count("Delete") = 1 /\ Len(log) = 1
    /\ \A i, j \in 1..Len(log) :
          (i < j /\ log[i].op = log[j].op) => log[i].err = NoErr
    /\ Len(log) <= 4

\* A create callback that took the conflict path to its end: Create, Read,
\* Update, Read.
C20_Witness ==
    /\ ret.fn = "create" /\ Len(log) = 4
    /\ Count("Create") = 1 /\ Count("Update") = 1 /\ Count("Read") = 2

\* Every request of the last callback was sent to the host, and with the
\* bearer token and token kind, of the shared client.
ObservesClient ==
    \A i \in 1..Len(log) :
        /\ log[i].host = client.HostURL
        /\ log[i].auth = <<TokenScheme(client), client.Token>>

Mutations ==
    {i \in 1..Len(log) : log[i].op \in {"Create", "Update"} /\ log[i].err = NoErr}

\* C22: when the Create, or the Update of the conflict path, of a create
\* callback succeeded, exactly one request follows it, the refresh Read.
\* The identifier was set to the id of the mutation's response before that
\* Read: it is what the state holds when the Read fails. When the Read
\* succeeds the callback succeeds, and version, created_at and updated_at
\* in state are those of the secret taken from that Read.
C22_IdSetThenOneRefresh ==
    (ret.fn = "create" /\ Mutations # {}) =>
        \A m \in Mutations :
            /\ Len(log) = m + 1
            /\ log[m + 1].op = "Read"
            /\ log[m + 1].err # NoErr =>
                  /\ ret.err = log[m + 1].err
                  /\ d.id = log[m].returned[1].ID
            /\ log[m + 1].err = NoErr =>
                  /\ ret.err = NoErr
                  /\ d.version = SelectSecret(log[m + 1].returned).Version
                  /\ d.created_at = SelectSecret(log[m + 1].returned).CreatedAt
                  /\ d.updated_at = SelectSecret(log[m + 1].returned).UpdatedAt

\* A create that went through the conflict path and was refreshed: Create
\* (409), Read, Update, Read, leaving the updated version in state.
C22_Witness ==
    /\ ret.fn = "create" /\ ret.err = NoErr /\ Len(log) = 4
    /\ log[3].op = "Update" /\ 3 \in Mutations
    /\ d.id = log[3].returned[1].ID
    /\ d.version = log[3].returned[1].Version /\ d.version > 1

\* The request was answered with the status 409 Conflict.
Answered409(e) == ~e.transport /\ e.code = 409

\* C23: when the Create of a create callback fails with anything but a 409
\* Conflict (no connection, a body that does not decode, an empty list,
\* another status), the callback returns that error, has issued no other
\* request and leaves the identifier unset; a Read and an Update after a
\* failed Create occur only when it was answered 409 Conflict.
C23_OtherErrorsPropagate ==
    (ret.fn = "create" /\ log[1].err # NoErr) =>
        /\ log[1].op = "Create"
        /\ ~Answered409(log[1]) =>
              /\ ret.err = log[1].err
              /\ Len(log) = 1
              /\ d.id = ""
        /\ Len(log) > 1 => Answered409(log[1]) /\ log[2].op = "Read"

\* A create whose Create was answered 500 Internal Server Error.
C23_Witness ==
    /\ ret.fn = "create" /\ Len(log) = 1 /\ log[1].op = "Create"
    /\ log[1].code = 500 /\ ret.err = <<"failed to create secret: ", log[1].status>>
    /\ d.id = ""

\* The positions in a list of requests of those of one kind.
Requests(entries, op) == {i \in 1..Len(entries) : entries[i].op = op}

MutationsOf(entries) ==
    {i \in 1..Len(entries) :
        entries[i].op \in {"Create", "Update"} /\ entries[i].err = NoErr}

\* The secrets of store2 that store1 did not hold.
CreatedBetween(store1, store2) == {s \in store2 : ~\E t \in store1 : t.ID = s.ID}

\* C25: after a create callback the identifier is set exactly when a
\* Create or an Update of that callback succeeded; when the refresh Read
\* after the mutation fails the callback returns an error with the
\* identifier set to the id the mutation returned; and a secret that the
\* callback created remotely is never left without an identifier in state.
C25_IdIffMutated ==
    [][ret'.fn = "create" =>
          /\ d'.id # "" <=> MutationsOf(log') # {}
          /\ \A m \in MutationsOf(log') :
                ret'.err # NoErr => d'.id = log'[m].returned[1].ID
          /\ CreatedBetween(remote, remote') # {} => d'.id # ""]_vars

\* The positions of the returned secrets that pass the path argument.
Passing(returned, path) == {i \in 1..Len(returned) : PassesPath(returned, path, i)}

\* The last of the passing secrets of key k in the order Read returned.
LastOfKey(returned, path, k) ==
    CHOOSE i \in Passing(returned, path) :
        /\ returned[i].Key = k
        /\ \A j \in Passing(returned, path) : returned[j].Key = k => j <= i

\* C26: the secrets map of the data source has one entry for each key
\* that occurs among the returned secrets passing the path filter, and no
\* other; the entry of a key holds the effective value of the last passing
\* secret of that key in the order Read returned, whatever the earlier
\* ones of that key held.
C26_OneEntryPerKeyLastWins ==
    DataShown =>
        LET returned == log[1].returned
            path     == ret.given.path
        IN  /\ DOMAIN ret.data.secrets =
                   {returned[i].Key : i \in Passing(returned, path)}
            /\ \A k \in DOMAIN ret.data.secrets :
                   ret.data.secrets[k] = ShownValue(returned[LastOfKey(returned, path, k)])

\* A read with the empty path that returned the same key from two paths
\* with different effective values: the map shows one entry for it.
C26_Witness ==
    /\ DataShown
    /\ ret.given.path = ""
    /\ \E i, j \in Passing(log[1].returned, "") :
           /\ i < j
           /\ log[1].returned[i].Key = log[1].returned[j].Key
           /\ log[1].returned[i].Path # log[1].returned[j].Path
           /\ ShownValue(log[1].returned[i]) # ShownValue(log[1].returned[j])
           /\ LastOfKey(log[1].returned, "", log[1].returned[j].Key) = j
           /\ ret.data.secrets[log[1].returned[j].Key] = ShownValue(log[1].returned[j])
    /\ Cardinality(DOMAIN ret.data.secrets) < Len(log[1].returned)

\* The positions of the colons of a credential.
Colons(tok) == {i \in 1..Len(tok) : tok[i] = ":"}

NumFields(tok) == Cardinality(Colons(tok)) + 1

\* The position of the k-th colon; 0 for k = 0 and Len + 1 past the last.
ColonAt(tok, k) ==
    IF k = 0 THEN 0
    ELSE IF k > Cardinality(Colons(tok)) THEN Len(tok) + 1
    ELSE CHOOSE i \in Colons(tok) : Cardinality({j \in Colons(tok) : j <= i}) = k

\* The k-th colon-separated field of a credential.
NthField(tok, k) == SubSeq(tok, ColonAt(tok, k - 1) + 1, ColonAt(tok, k) - 1)

IsVersion(f) == Len(f) >= 2 /\ f[1] = "v" /\ \A i \in 2..Len(f) : f[i] \in Digit

IsHexField(f) == Len(f) = HexLen /\ \A i \in 1..Len(f) : f[i] \in HexChar

\* scheme, a version, and n hexadecimal fields of 64 characters.
Shaped(scheme, tok, n) ==
    /\ NumFields(tok) = 2 + n
    /\ NthField(tok, 1) = scheme
    /\ IsVersion(NthField(tok, 2))
    /\ \A k \in 3..(2 + n) : IsHexField(NthField(tok, k))

\* C9: a well-formed service token yields ServiceAccount for version v2
\* and Service for any other version, a well-formed user token yields
\* User, each with the third field as bearer; any other string yields
\* the empty kind and itself as bearer.
C9_TokenClassification ==
    client.configured =>
        IF Shaped(SchemeService, phase_token, HexGroups)
        THEN /\ client.TokenType =
                    IF NthField(phase_token, 2) = <<"v", "2">>
                    THEN "ServiceAccount" ELSE "Service"
             /\ client.Token = NthField(phase_token, 3)
        ELSE IF Shaped(SchemeUser, phase_token, HexGroups)
        THEN /\ client.TokenType = "User"
             /\ client.Token = NthField(phase_token, 3)
        ELSE /\ client.TokenType = ""
             /\ client.Token = phase_token

\* A version 2 service token was classified.
C9_Witness ==
    /\ client.configured
    /\ Shaped(SchemeService, phase_token, HexGroups)
    /\ NthField(phase_token, 2) = <<"v", "2">>
    /\ client.TokenType = "ServiceAccount"

\* C10 as stated: a credential of five fields (scheme, version and three
\* hexadecimal fields) is classified with a kind, its bearer the third.
C10_FiveFieldsRecognized ==
    (client.configured /\ \E sc \in {SchemeService, SchemeUser} :
                              Shaped(sc, phase_token, 3)) =>
        /\ client.TokenType # ""
        /\ client.Token = NthField(phase_token, 3)

\* C10 as amended: a credential of six fields (scheme, version and four
\* hexadecimal fields) is classified with a kind, its bearer the third;
\* one of five fields gets the empty kind and is its own bearer.
C10_SixFieldsRecognized ==
    client.configured =>
        /\ (\E sc \in {SchemeService, SchemeUser} : Shaped(sc, phase_token, 4)) =>
               /\ client.TokenType # ""
               /\ client.Token = NthField(phase_token, 3)
        /\ (\E sc \in {SchemeService, SchemeUser} : Shaped(sc, phase_token, 3)) =>
               /\ client.TokenType = ""
               /\ client.Token = phase_token

\* A user token of six fields was classified.
C10_Witness ==
    /\ client.configured
    /\ Shaped(SchemeUser, phase_token, 4)
    /\ client.TokenType = "User"
    /\ client.Token = NthField(phase_token, 3)

====
